---- MODULE Spec2Model ----
(***************************************************************************)
(* nsjail: the supervisor's child-spawn pipeline (subproc.c), the          *)
(* per-IP connection limiter and the address formatting of net.c, and the  *)
(* command-line parser (cmdline.c).                                        *)
(*                                                                         *)
(* The supervisor is one thread.  subprocRunChild blocks in read(2) on the *)
(* log pipe while the cloned child runs, so it is split at its suspension  *)
(* points: RunChild (netLimitConns, pipe2, clone), NetAttach               *)
(* (netCloneNetIfaces), ReadReturn / ReadInterrupted (the read loop, then  *)
(* close and subprocAdd).  subprocReap is one action.  The cloned children *)
(* are processes of their own: ChildBuild (subprocNewProc), ChildLog,      *)
(* TargetExit and Die (a delivered SIGKILL).                               *)
(***************************************************************************)
EXTENDS Integers, Sequences, FiniteSets, TLC

VARIABLES
    conf,       \* struct nsjconf_t: max_conns_per_ip, tlimit, macvtap/macvlan configured
    pc,         \* where the supervisor thread is
    cur,        \* the locals of the running (or last) subprocRunChild call
    pipefd,     \* the supervisor's descriptors of the call's pipe: [r, w] open?
    leaked,     \* pipe descriptors of earlier calls still open in the supervisor
    pipeData,   \* chunks buffered in the call's pipe
    roster,     \* nsjconf->pids, head first
    procs,      \* the kernel's processes cloned by the supervisor, by pid
    now,        \* time(NULL)
    nrun,       \* calls of subprocRunChild so far
    lim,        \* what the call's netLimitConns saw and answered
    connOpen,   \* the caller's connection socket is open
    passKept,   \* the time-limit pass of the last subprocReap left the roster as it found it
    built,      \* by pid, how far subprocNewProc got (followed step by step in BuildSpec)
    sent,       \* by pid, the signals the last subprocReap or subprocKillAll sent to it
    removeLog,  \* by pid, what subprocRemove logged for it in the last subprocReap
    cmd         \* cmdlineParse: its locals, the nsjconf fields it sets, how it ended

vars == <<conf, pc, cur, pipefd, leaked, pipeData, roster, procs, now, nrun, lim, connOpen,
          passKept, built, sent, removeLog, cmd>>

-----------------------------------------------------------------------------
(* Bounds of the model *)
MaxRuns == 2
MaxPid == 2
MaxTime == 1
MaxPipe == 1
MaxOpts == 2

(* struct nsjconf_t as subproc.c reads it: max_conns_per_ip, tlimit (0 =    *)
(* unlimited), whether a macvtap/macvlan interface is configured, and the   *)
(* six namespace switches ns = <<net, user, ns, pid, ipc, uts>>.            *)
Conf(m, t, i, ns) ==
    [max_conns_per_ip |-> m, tlimit |-> t, ifaces |-> i,
     clone_newnet |-> ns[1], clone_newuser |-> ns[2], clone_newns |-> ns[3],
     clone_newpid |-> ns[4], clone_newipc |-> ns[5], clone_newuts |-> ns[6]]

(* The configurations explored *)
Confs == {Conf(1, 1, TRUE, <<TRUE, TRUE, TRUE, TRUE, TRUE, TRUE>>),
          Conf(0, 0, FALSE, <<FALSE, FALSE, TRUE, TRUE, TRUE, TRUE>>)}

(* Every choice of namespaces, with no limit and no interface *)
FlagConfs == {Conf(0, 0, FALSE, ns) : ns \in [1..6 -> BOOLEAN]}

(* Program constants *)
SIGCHLD == 17
CLONE_NEWNS == 131072
CLONE_NEWUTS == 67108864
CLONE_NEWIPC == 134217728
CLONE_NEWUSER == 268435456
CLONE_NEWPID == 536870912
CLONE_NEWNET == 1073741824
AddrLen == 16
CmpLen == 1
SIGKILL == 9
SIGCONT == 18
ExitFailure == 1

Pids == 1..MaxPid

-----------------------------------------------------------------------------
(* 16-byte IPv6 addresses.  MkAddr(a, b) has first byte a and last byte b. *)
MkAddr(a, b) == [i \in 1..AddrLen |-> IF i = 1 THEN a ELSE IF i = AddrLen THEN b ELSE 0]

ZeroAddr == MkAddr(0, 0)

Addrs == {MkAddr(0, 0), MkAddr(1, 0), MkAddr(1, 1)}

(* What an address that was never written may hold *)
Garbage == {MkAddr(0, 0), MkAddr(1, 0)}

(* memcmp(a, b, n) == 0 *)
MemEq(a, b, n) == \A i \in 1..n : a[i] = b[i]

(* The descriptors a caller hands to subprocRunChild as fd_in: a connected  *)
(* TCP socket with its peer address, or the inherited stdin.                *)
StdFd == [isSock |-> FALSE, peer |-> ZeroAddr]

Fds == {StdFd, [isSock |-> TRUE, peer |-> MkAddr(1, 0)], [isSock |-> TRUE, peer |-> MkAddr(1, 1)]}

(* The texts netConnToText prints, as tuples: a fixed text, or the address  *)
(* inet_ntop formats followed by the port.                                  *)
StandaloneTxt == <<"[STANDALONE_MODE]">>
UnknownTxt == <<"[unknown]">>
AddrTxt(a) == <<"%s:%hu", a>>

(* netConnToText(fd, remote, buf, s, addr_or_null): peerOk is whether       *)
(* getpeername() succeeds; old is what *addr_or_null held before the call.  *)
(* The text is always written; the address only when the fd is a socket and *)
(* getpeername() succeeded.                                                 *)
netConnToText(fd, peerOk, old) ==
    IF ~fd.isSock THEN [txt |-> StandaloneTxt, addr |-> old]
    ELSE IF ~peerOk THEN [txt |-> UnknownTxt, addr |-> old]
    ELSE [txt |-> AddrTxt(fd.peer), addr |-> fd.peer]

(* The number of roster records whose address agrees with addr on the first n bytes *)
CountAddr(r, addr, n) ==
    Cardinality({i \in 1..Len(r) : MemEq(addr, r[i].remote_addr, n)})

(* netLimitConns: stack is what the uninitialised local addr holds *)
netLimitConns(c, r, fd, peerOk, stack) ==
    IF c.max_conns_per_ip = 0 THEN TRUE
    ELSE LET addr == netConnToText(fd, peerOk, stack).addr
             cnt == CountAddr(r, addr, CmpLen)
         IN  ~(cnt >= c.max_conns_per_ip)

-----------------------------------------------------------------------------
(* The roster *)

(* subprocAdd: heap is what the malloc'ed record's remote_addr holds *)
subprocAdd(r, pid, fd, mallocOk, t, peerOk, heap) ==
    IF ~mallocOk THEN r
    ELSE LET c == netConnToText(fd, peerOk, heap)
         IN  <<[pid |-> pid, start |-> t, remote_txt |-> c.txt, remote_addr |-> c.addr]>> \o r

RECURSIVE RemoveFirst(_, _)
RemoveFirst(r, pid) ==
    IF r = <<>> THEN <<>>
    ELSE IF Head(r).pid = pid THEN Tail(r)
    ELSE <<Head(r)>> \o RemoveFirst(Tail(r), pid)

(* The same unlinking the head of the list whatever its pid *)
subprocRemove_head(r, pid) == IF r = <<>> THEN <<>> ELSE Tail(r)

(* subprocRemove: unlink the first record with this pid, if any *)
subprocRemove(r, pid) == RemoveFirst(r, pid)

(* subprocCount *)
subprocCount(r) == Len(r)

CountPid(r, pid) == Cardinality({i \in 1..Len(r) : r[i].pid = pid})

-----------------------------------------------------------------------------
(* Processes *)
NoExit == [kind |-> "none", code |-> 0]

(* st: free (no such process), build (cloned, in subprocNewProc), run (the  *)
(* target was exec'ed), zombie (terminated, not yet reaped), returned       *)
(* (subprocNewProc returned into subprocRunChild).  wopen: the child's copy *)
(* of the pipe's write end is open.  kill: a SIGKILL is pending; rekill: it *)
(* was sent again while pending.  eof: the supervisor saw end of file on    *)
(* this child's log pipe.                                                   *)
FreeProc == [st |-> "free", exit |-> NoExit, wopen |-> FALSE, kill |-> FALSE,
             rekill |-> FALSE, eof |-> FALSE]

Live(p) == procs[p].st \in {"build", "run"}

(* The same with sandboxApply called before containMakeFdsCOE *)
Steps_swapped == <<"containPrepareEnv", "containSetupFD", "containMountFS", "containDropPrivs",
                   "containSetLimits", "sandboxApply", "containMakeFdsCOE", "execve">>

(* The containment steps of subprocNewProc, in the order of the code *)
Steps == <<"containPrepareEnv", "containSetupFD", "containMountFS", "containDropPrivs",
           "containSetLimits", "containMakeFdsCOE", "sandboxApply", "execve">>

StepOutcomes == [1..Len(Steps) -> BOOLEAN]

(* A child at the entry of subprocNewProc.  step: the next step to call;    *)
(* trace: the steps called so far; failed: the first step that failed (0:   *)
(* none); end: how subprocNewProc ended (none: it has not).                 *)
BuilderEntry == [step |-> 1, trace |-> <<>>, failed |-> 0, end |-> "none", code |-> 0]

(* The same with the exit(1) after containMountFS and the _exit(1) after    *)
(* execve missing.                                                          *)
NewProcStep_noexit(b, ok) ==
    LET t == Append(b.trace, Steps[b.step])
        f == IF b.failed = 0 /\ ~ok THEN b.step ELSE b.failed
    IN  IF ~ok /\ b.step \notin {3, Len(Steps)}
        THEN [b EXCEPT !.trace = t, !.failed = f, !.end = "exit", !.code = ExitFailure]
        ELSE IF b.step = Len(Steps)
        THEN [b EXCEPT !.trace = t, !.failed = f, !.end = IF ok THEN "exec" ELSE "return"]
        ELSE [b EXCEPT !.trace = t, !.failed = f, !.step = b.step + 1]

(* One step of subprocNewProc with the step's result ok: a failed           *)
(* containment step is exit(1), a failed execve is _exit(1), a successful   *)
(* execve runs the target.                                                  *)
NewProcStep(b, ok) ==
    LET t == Append(b.trace, Steps[b.step])
    IN  IF ~ok
        THEN [b EXCEPT !.trace = t, !.failed = b.step, !.end = "exit", !.code = ExitFailure]
        ELSE IF b.step = Len(Steps)
        THEN [b EXCEPT !.trace = t, !.end = "exec"]
        ELSE [b EXCEPT !.trace = t, !.step = b.step + 1]

(* subprocNewProc from b to its end under the step outcomes oks *)
RECURSIVE NewProcRun(_, _)
NewProcRun(b, oks) ==
    IF b.end # "none" THEN b ELSE NewProcRun(NewProcStep(b, oks[b.step]), oks)

subprocNewProc(oks) == NewProcRun(BuilderEntry, oks)

(* The ways subprocNewProc can end *)
BuildEnds == {[end |-> subprocNewProc(oks).end, code |-> subprocNewProc(oks).code] :
                 oks \in StepOutcomes}

(* The process pr once subprocNewProc ended as e *)
Ended(pr, e) ==
    CASE e.end = "exit" ->
             [pr EXCEPT !.st = "zombie", !.wopen = FALSE, !.kill = FALSE, !.rekill = FALSE,
                        !.exit = [kind |-> "exited", code |-> e.code]]
      [] e.end = "exec" -> [pr EXCEPT !.st = "run", !.wopen = FALSE]
      [] OTHER -> [pr EXCEPT !.st = "returned"]

-----------------------------------------------------------------------------
(* cmdline.c: strings are sequences of characters *)

Digits == <<"0", "1", "2", "3", "4", "5", "6", "7", "8", "9">>

HexDigits == Digits \o <<"a", "b", "c", "d", "e", "f">>

(* tolower() on the letters that occur *)
ToLower(c) ==
    CASE c = "A" -> "a" [] c = "D" -> "d" [] c = "E" -> "e" [] c = "F" -> "f"
      [] c = "M" -> "m" [] c = "X" -> "x" [] OTHER -> c

isdigit(c) == \E i \in 1..Len(Digits) : Digits[i] = c

(* The value of the character c as a digit in the base, -1 when it is none *)
DigitVal(c, base) ==
    IF \E i \in 1..base : HexDigits[i] = ToLower(c)
    THEN (CHOOSE i \in 1..base : HexDigits[i] = ToLower(c)) - 1
    ELSE -1

(* strcasecmp(a, b) == 0 *)
strcasecmp0(a, b) ==
    Len(a) = Len(b) /\ \A i \in 1..Len(a) : ToLower(a[i]) = ToLower(b[i])

(* cmdlineIsANumber: the loop looks at every character of s (s advances,    *)
(* the index stays 0) and accepts digits and 'x'.                           *)
cmdlineIsANumber(s) == \A i \in 1..Len(s) : ~(~isdigit(s[i]) /\ s[i] # "x")

(* unsigned long (64 bits) as ULongLimbs limbs of 16 bits, lowest first *)
LimbBase == 65536
ULongLimbs == 4
WideLimbs == 6

ULong(lo) == [i \in 1..ULongLimbs |-> IF i = 1 THEN lo ELSE 0]

ULONG_MAX == [i \in 1..ULongLimbs |-> LimbBase - 1]

(* v * m + c on limbs, from limb i up: the limbs and the carry out *)
RECURSIVE MulAddFrom(_, _, _, _)
MulAddFrom(v, m, c, i) ==
    IF i > Len(v) THEN [val |-> <<>>, carry |-> c]
    ELSE LET t == v[i] * m + c
             rest == MulAddFrom(v, m, t \div LimbBase, i + 1)
         IN  [val |-> <<t % LimbBase>> \o rest.val, carry |-> rest.carry]

MulAdd(v, m, a) == MulAddFrom(v, m, a, 1)

(* v times the factors of fs in the width of v: the carries are dropped *)
RECURSIVE MulWrap(_, _)
MulWrap(v, fs) ==
    IF fs = <<>> THEN v ELSE MulWrap(MulAdd(v, Head(fs), 0).val, Tail(fs))

(* The digits of s from position i in the base, accumulated as strtoul      *)
(* does: it stops at the first character that is no digit of the base, and  *)
(* on overflow gives ULONG_MAX and errno = ERANGE.                          *)
RECURSIVE StrToULFrom(_, _, _, _, _)
StrToULFrom(s, i, base, acc, over) ==
    IF i > Len(s) \/ DigitVal(s[i], base) < 0
    THEN [val |-> IF over THEN ULONG_MAX ELSE acc, erange |-> over]
    ELSE LET r == MulAdd(acc, base, DigitVal(s[i], base))
         IN  StrToULFrom(s, i + 1, base, r.val, over \/ r.carry # 0)

(* strtoul(s, NULL, 0): "0x" and a hex digit start a hexadecimal number, a  *)
(* leading "0" an octal one, anything else a decimal one.                   *)
strtoul(s) ==
    IF Len(s) >= 3 /\ s[1] = "0" /\ ToLower(s[2]) = "x" /\ DigitVal(s[3], 16) >= 0
    THEN StrToULFrom(s, 3, 16, ULong(0), FALSE)
    ELSE IF Len(s) >= 1 /\ s[1] = "0"
    THEN StrToULFrom(s, 1, 8, ULong(0), FALSE)
    ELSE StrToULFrom(s, 1, 10, ULong(0), FALSE)

(* (uid_t) and (gid_t) of an unsigned long long: its low 32 bits *)
ToId(v) == SubSeq(v, 1, 2)

(* The multipliers cmdlineParse passes: (1024 * 1024), or 1 *)
MB == <<1024, 1024>>
One == <<1>>

(* The rlimit options: the resource and the multiplier of each *)
RLimitOpts ==
    [rlimit_as |-> MB, rlimit_core |-> MB, rlimit_cpu |-> One, rlimit_fsize |-> MB,
     rlimit_nofile |-> One, rlimit_nproc |-> One, rlimit_stack |-> MB]

RLimitNames == DOMAIN RLimitOpts

(* What getrlimit() may report: rlim_cur and rlim_max *)
Rlims == {[rlim_cur |-> ULong(1024), rlim_max |-> ULONG_MAX]}

Fatal == [kind |-> "fatal", val |-> ULong(0)]

(* cmdlineParseRLimit(res, optarg, mul): rlimit is what getrlimit() read,   *)
(* errno0 the errno left by earlier calls (nothing clears it).  LOG_F and   *)
(* PLOG_F end the program.                                                  *)
cmdlineParseRLimit(optarg, mul, rlimit, errno0) ==
    IF strcasecmp0(optarg, <<"m", "a", "x">>) THEN [kind |-> "value", val |-> rlimit.rlim_max]
    ELSE IF strcasecmp0(optarg, <<"d", "e", "f">>)
    THEN [kind |-> "value", val |-> rlimit.rlim_cur]
    ELSE IF cmdlineIsANumber(optarg) = FALSE THEN Fatal
    ELSE LET n == strtoul(optarg)
             val == MulWrap(n.val, mul)
             errno == IF n.erange THEN 1 ELSE errno0
         IN  IF val = ULONG_MAX /\ errno # 0 THEN Fatal
             ELSE [kind |-> "value", val |-> val]

(* The persona_* options and the personality(2) flag of each *)
ADDR_NO_RANDOMIZE == 262144
MMAP_PAGE_ZERO == 1048576
ADDR_COMPAT_LAYOUT == 2097152
READ_IMPLIES_EXEC == 4194304
ADDR_LIMIT_3GB == 134217728

PersonaOpts ==
    [persona_addr_compat_layout |-> ADDR_COMPAT_LAYOUT,
     persona_mmap_page_zero |-> MMAP_PAGE_ZERO,
     persona_read_implies_exec |-> READ_IMPLIES_EXEC,
     persona_addr_limit_3gb |-> ADDR_LIMIT_3GB,
     persona_addr_no_randomize |-> ADDR_NO_RANDOMIZE]

PersonaNames == DOMAIN PersonaOpts

(* a | b *)
RECURSIVE BitOr(_, _)
BitOr(a, b) ==
    IF a = 0 THEN b
    ELSE IF b = 0 THEN a
    ELSE (IF a % 2 = 1 \/ b % 2 = 1 THEN 1 ELSE 0) + 2 * BitOr(a \div 2, b \div 2)

(* personality = flag in place of personality |= flag *)
PersonaSet_assign(mask, flag) == flag

(* nsjconf->personality |= flag *)
PersonaSet(mask, flag) == BitOr(mask, flag)

(* The personality the caller put into nsjconf before the parse *)
InitMasks == {0, 8, ADDR_NO_RANDOMIZE}

(* The strings given as option arguments *)
Nobody == <<"n", "o", "b", "o", "d", "y">>

RLimitArgs ==
    {<<"m", "a", "x">>, <<"M", "a", "X">>, <<"d", "e", "f">>, <<"5", "1", "2">>,
     <<"1", "7", "5", "9", "2", "1", "8", "6", "0", "4", "4", "4", "1", "6">>,
     <<"a", "b", "c">>}

UserArgs == {Nobody, <<"1", "0", "0", "0">>, <<"x", "x">>, <<"b", "o", "b">>}

GroupArgs == {Nobody, <<"1", "0", "0">>, <<"1", "x">>}

ModeArgs == {<<"l">>, <<"o">>, <<"r">>, <<"z">>}

(* getpwnam() and getgrnam(): the accounts of the system *)
Passwd == {[name |-> Nobody, id |-> <<65534, 0>>]}

Group == {[name |-> Nobody, id |-> <<65534, 0>>]}

(* What getopt_long() returns for what the user typed: the option character *)
(* (or long-option value) c and optarg.  An option that is not in the table *)
(* comes back as '?', like -? itself; -I is in the option string but has no *)
(* case of its own.                                                         *)
NoArg == <<>>

Tokens ==
    {[typed |-> "--help", c |-> "h", optarg |-> NoArg],
     [typed |-> "-?", c |-> "?", optarg |-> NoArg],
     [typed |-> "--bogus", c |-> "?", optarg |-> NoArg],
     [typed |-> "-I", c |-> "I", optarg |-> <<"x">>],
     [typed |-> "--verbose", c |-> "v", optarg |-> NoArg]}
    \cup {[typed |-> "--mode", c |-> "M", optarg |-> a] : a \in ModeArgs}
    \cup {[typed |-> "--user", c |-> "u", optarg |-> a] : a \in UserArgs}
    \cup {[typed |-> "--group", c |-> "g", optarg |-> a] : a \in GroupArgs}
    \cup {[typed |-> "--rlimit", c |-> r, optarg |-> a] : r \in RLimitNames, a \in RLimitArgs}
    \cup {[typed |-> "--persona", c |-> p, optarg |-> NoArg] : p \in PersonaNames}

Unset == <<>>

(* cmdlineParse at its entry: the locals user and group, and the fields of  *)
(* nsjconf it may set.  rl keeps, with each limit set, the argument and the *)
(* getrlimit() result it was computed from; seen is the set of persona      *)
(* options handled; why is what led to cmdlineUsage.                        *)
CmdEntry(mask) ==
    [pc |-> "getopt", nopt |-> 0, user |-> Nobody, group |-> Nobody,
     mode |-> "MODE_LISTEN_TCP", verbose |-> FALSE,
     personality |-> mask, persona0 |-> mask, seen |-> {},
     rl |-> [r \in RLimitNames |-> Unset],
     uid |-> Unset, gid |-> Unset, exit |-> -1, ret |-> "none", why |-> "none"]

(* cmdlineUsage: cmdlineHelp, then exit(0) *)
cmdlineUsage(c, why) == [c EXCEPT !.pc = "exited", !.exit = 0, !.why = why]

(* Why the user gets the usage text for the token *)
UsageReason(tok) == IF tok.typed \in {"--help", "-?"} THEN "help" ELSE "unknown"

(* The switch of cmdlineParse on one option *)
CmdlineCase(c, tok, rlimit, errno0) ==
    CASE tok.c \in {"h", "?"} -> cmdlineUsage(c, UsageReason(tok))
      [] tok.c = "v" -> [c EXCEPT !.verbose = TRUE]
      [] tok.c = "u" -> [c EXCEPT !.user = tok.optarg]
      [] tok.c = "g" -> [c EXCEPT !.group = tok.optarg]
      [] tok.c = "M" ->
             CASE tok.optarg[1] = "l" -> [c EXCEPT !.mode = "MODE_LISTEN_TCP"]
               [] tok.optarg[1] = "o" -> [c EXCEPT !.mode = "MODE_STANDALONE_ONCE"]
               [] tok.optarg[1] = "r" -> [c EXCEPT !.mode = "MODE_STANDALONE_RERUN"]
               [] OTHER -> cmdlineUsage(c, "mode")
      [] tok.c \in RLimitNames ->
             LET out == cmdlineParseRLimit(tok.optarg, RLimitOpts[tok.c], rlimit, errno0)
             IN  IF out.kind = "fatal" THEN [c EXCEPT !.pc = "fatal"]
                 ELSE [c EXCEPT !.rl[tok.c] =
                                    [optarg |-> tok.optarg, rlimit |-> rlimit, val |-> out.val]]
      [] tok.c \in PersonaNames ->
             [c EXCEPT !.personality = PersonaSet(c.personality, PersonaOpts[tok.c]),
                       !.seen = c.seen \cup {tok.c}]
      [] OTHER -> cmdlineUsage(c, "unknown")

(* getpwnam / getgrnam, else a number, else nothing *)
IdOf(db, s) ==
    IF \E a \in db : a.name = s THEN (CHOOSE a \in db : a.name = s).id
    ELSE IF cmdlineIsANumber(s) THEN ToId(strtoul(s).val)
    ELSE Unset

(* cmdlineParse after the options: the log file, the command, uid and gid *)
CmdlineTail(c, logOk, hasCommand) ==
    IF ~logOk THEN [c EXCEPT !.pc = "returned", !.ret = "false"]
    ELSE IF ~hasCommand THEN cmdlineUsage(c, "nocommand")
    ELSE IF IdOf(Passwd, c.user) = Unset THEN [c EXCEPT !.pc = "returned", !.ret = "false"]
    ELSE IF IdOf(Group, c.group) = Unset
    THEN [c EXCEPT !.pc = "returned", !.ret = "false", !.uid = IdOf(Passwd, c.user)]
    ELSE [c EXCEPT !.pc = "returned", !.ret = "true", !.uid = IdOf(Passwd, c.user),
                   !.gid = IdOf(Group, c.group)]

subprocVars == <<conf, pc, cur, pipefd, leaked, pipeData, roster, procs, now, nrun, lim,
                 connOpen, passKept, built, sent, removeLog>>

(* getopt_long() returned an option: one round of the loop *)
CmdlineOption ==
    /\ cmd.pc = "getopt"
    /\ cmd.nopt < MaxOpts
    /\ \E tok \in Tokens, rlim \in Rlims, errno0 \in {0, 1} :
           cmd' = [CmdlineCase(cmd, tok, rlim, errno0) EXCEPT !.nopt = cmd.nopt + 1]
    /\ UNCHANGED subprocVars

(* getopt_long() returned -1: the rest of cmdlineParse *)
CmdlineEnd ==
    /\ cmd.pc = "getopt"
    /\ \E logOk \in BOOLEAN, hasCommand \in BOOLEAN :
           cmd' = CmdlineTail(cmd, logOk, hasCommand)
    /\ UNCHANGED subprocVars

-----------------------------------------------------------------------------
(* The clone flags with the CLONE_NEWUSER bit following clone_newnet *)
CloneFlags_copied(c) ==
    LET f1 == BitOr(SIGCHLD, IF c.clone_newnet THEN CLONE_NEWNET ELSE 0)
        f2 == BitOr(f1, IF c.clone_newnet THEN CLONE_NEWUSER ELSE 0)
        f3 == BitOr(f2, IF c.clone_newns THEN CLONE_NEWNS ELSE 0)
        f4 == BitOr(f3, IF c.clone_newpid THEN CLONE_NEWPID ELSE 0)
        f5 == BitOr(f4, IF c.clone_newipc THEN CLONE_NEWIPC ELSE 0)
    IN  BitOr(f5, IF c.clone_newuts THEN CLONE_NEWUTS ELSE 0)

(* unsigned int flags = SIGCHLD; flags |= (... ? CLONE_NEW... : 0); six times *)
CloneFlags(c) ==
    LET f1 == BitOr(SIGCHLD, IF c.clone_newnet THEN CLONE_NEWNET ELSE 0)
        f2 == BitOr(f1, IF c.clone_newuser THEN CLONE_NEWUSER ELSE 0)
        f3 == BitOr(f2, IF c.clone_newns THEN CLONE_NEWNS ELSE 0)
        f4 == BitOr(f3, IF c.clone_newpid THEN CLONE_NEWPID ELSE 0)
        f5 == BitOr(f4, IF c.clone_newipc THEN CLONE_NEWIPC ELSE 0)
    IN  BitOr(f5, IF c.clone_newuts THEN CLONE_NEWUTS ELSE 0)

NoLim == [valid |-> FALSE, full |-> 0, allowed |-> TRUE]

NoCur == [fd |-> StdFd, res |-> "none", pid |-> 0, flags |-> 0, attached |-> FALSE,
          link |-> "none", eof |-> FALSE]

(* The locals of a call that ended as res; flags is set once the limiter    *)
(* let the connection in.                                                   *)
NewCur(fd, res, pid) ==
    [NoCur EXCEPT !.fd = fd, !.res = res, !.pid = pid,
                  !.flags = IF res = "rejected" THEN 0 ELSE CloneFlags(conf)]

NoPipe == [r |-> FALSE, w |-> FALSE]

(* The supervisor before its first spawn *)
SubprocStart ==
    /\ pc = "idle"
    /\ cur = NoCur
    /\ pipefd = NoPipe
    /\ leaked = 0
    /\ pipeData = 0
    /\ roster = <<>>
    /\ procs = [p \in Pids |-> FreeProc]
    /\ now = 0
    /\ nrun = 0
    /\ lim = NoLim
    /\ connOpen = FALSE
    /\ passKept = TRUE
    /\ built = [p \in Pids |-> BuilderEntry]
    /\ sent = [p \in Pids |-> <<>>]
    /\ removeLog = [p \in Pids |-> "none"]

SubprocInit == conf \in Confs /\ SubprocStart

Init == SubprocInit /\ cmd = CmdEntry(0)

(* What netLimitConns saw: whether it compared a peer address getpeername() *)
(* gave, and the number of records carrying exactly that 16-byte address.   *)
LimSeen(fd, peerOk, allowed) ==
    [valid |-> conf.max_conns_per_ip # 0 /\ fd.isSock /\ peerOk,
     full |-> IF conf.max_conns_per_ip # 0 /\ fd.isSock /\ peerOk
              THEN CountAddr(roster, fd.peer, AddrLen) ELSE 0,
     allowed |-> allowed]

(* What clone() may return: -1, or the pid of the new process.  No         *)
(* unreaped process holds that pid; pids are only ever compared for         *)
(* equality, so the lowest free one stands for any of them.                 *)
FreePids == {p \in Pids : procs[p].st = "free"}

CloneResults == {-1} \cup {p \in FreePids : \A q \in FreePids : p <= q}

(* The ways subprocRunChild goes on after netLimitConns, pipe2 and clone *)

(* The limiter's answer ignored: the pipe is created all the same *)
Rejected_ignored(fd) ==
    /\ cur' = NewCur(fd, "rejected", 0)
    /\ pc' = "returned"
    /\ pipefd' = [r |-> TRUE, w |-> TRUE]
    /\ UNCHANGED <<procs, roster>>

(* netLimitConns() == false: return *)
Rejected(fd) ==
    /\ cur' = NewCur(fd, "rejected", 0)
    /\ pc' = "returned"
    /\ pipefd' = NoPipe
    /\ UNCHANGED <<procs, roster>>

(* pipe2() == -1: return *)
PipeFailed(fd) ==
    /\ cur' = NewCur(fd, "pipe_failed", 0)
    /\ pc' = "returned"
    /\ pipefd' = NoPipe
    /\ UNCHANGED <<procs, roster>>

(* clone() == -1 with the close(pipefd[1]) forgotten *)
CloneFailed_leak(fd) ==
    /\ cur' = NewCur(fd, "clone_failed", 0)
    /\ pc' = "returned"
    /\ pipefd' = [r |-> FALSE, w |-> TRUE]
    /\ UNCHANGED <<procs, roster>>

(* clone() == -1: close both pipe ends, return *)
CloneFailed(fd) ==
    /\ cur' = NewCur(fd, "clone_failed", 0)
    /\ pc' = "returned"
    /\ pipefd' = NoPipe
    /\ UNCHANGED <<procs, roster>>

(* clone() gave pid: the child exists and holds copies of both pipe ends *)
Cloned(fd, pid) ==
    /\ cur' = NewCur(fd, "cloned", pid)
    /\ pc' = "attach"
    /\ pipefd' = [r |-> TRUE, w |-> TRUE]
    /\ procs' = [procs EXCEPT ![pid] = [FreeProc EXCEPT !.st = "build", !.wopen = TRUE]]
    /\ UNCHANGED roster

(* subprocRunChild up to and including clone(): the caller's fd_in, the     *)
(* limiter, pipe2(O_CLOEXEC), clone.                                        *)
RunChildFrom(fd, peerOk, stack, pipeOk, pid) ==
    LET allowed == netLimitConns(conf, roster, fd, peerOk, stack)
    IN  /\ lim' = LimSeen(fd, peerOk, allowed)
        /\ connOpen' = fd.isSock
        /\ nrun' = nrun + 1
        /\ pipeData' = 0
        /\ UNCHANGED <<conf, leaked, now, passKept, built, sent, removeLog, cmd>>
        /\ IF ~allowed THEN Rejected(fd)
           ELSE IF ~pipeOk THEN PipeFailed(fd)
           ELSE IF pid = -1 THEN CloneFailed(fd)
           ELSE Cloned(fd, pid)

RunChild ==
    /\ pc = "idle"
    /\ nrun < MaxRuns
    /\ \E fd \in Fds, peerOk \in BOOLEAN, stack \in Garbage, pipeOk \in BOOLEAN,
          pid \in CloneResults :
           RunChildFrom(fd, peerOk, stack, pipeOk, pid)

(* netCloneNetIfaces: nothing to do, and true, when no interface is set *)
netCloneNetIfaces(c, linkOk) == IF c.ifaces THEN linkOk ELSE TRUE

(* The same with a failed attach made fatal: SIGKILL to the child, return *)
NetAttach_fatal ==
    /\ pc = "attach"
    /\ \E linkOk \in BOOLEAN :
           IF netCloneNetIfaces(conf, linkOk)
           THEN /\ cur' = [cur EXCEPT !.attached = TRUE, !.link = "ok", !.res = "attached"]
                /\ pc' = "drain"
                /\ UNCHANGED procs
           ELSE /\ cur' = [cur EXCEPT !.attached = TRUE, !.link = "failed",
                                      !.res = "attach_failed"]
                /\ pc' = "returned"
                /\ procs' = [procs EXCEPT ![cur.pid].kill = (procs[cur.pid].st \in {"build", "run"})]
    /\ UNCHANGED <<conf, pipefd, leaked, pipeData, roster, now, nrun, lim, connOpen,
                   passKept, built, sent, removeLog, cmd>>

(* netCloneNetIfaces(nsjconf, pid) in the parent; a failure is logged and   *)
(* the call goes on.  link keeps the result.                                *)
NetAttach ==
    /\ pc = "attach"
    /\ \E linkOk \in BOOLEAN :
           cur' = [cur EXCEPT !.attached = TRUE,
                              !.link = IF netCloneNetIfaces(conf, linkOk) THEN "ok" ELSE "failed",
                              !.res = IF netCloneNetIfaces(conf, linkOk)
                                      THEN "attached" ELSE "attach_failed"]
    /\ pc' = "drain"
    /\ UNCHANGED <<conf, pipefd, leaked, pipeData, roster, procs, now, nrun, lim, connOpen,
                   passKept, built, sent, removeLog, cmd>>

(* The open write ends of the call's pipe: the supervisor's and the child's *)
Writers ==
    (IF pipefd.w THEN {"supervisor"} ELSE {}) \cup
    (IF cur.pid \in Pids /\ procs[cur.pid].wopen THEN {"child"} ELSE {})

(* What a read() that does not block returns: data, or 0 at end of file *)
ReadResults ==
    IF pipeData > 0 THEN {"data"} ELSE IF Writers = {} THEN {"eof"} ELSE {}

(* One round of the read loop with read()'s result sz; when the loop ends:  *)
(* close(pipefd[0]), subprocAdd, return.                                    *)
DrainLoop(sz, mallocOk, peerOk, heap) ==
    IF sz = "data"
    THEN /\ pipeData' = pipeData - 1
         /\ UNCHANGED <<conf, pc, cur, pipefd, leaked, roster, procs, now, nrun, lim,
                        connOpen, passKept, built, sent, removeLog, cmd>>
    ELSE /\ pipefd' = [pipefd EXCEPT !.r = FALSE]
         /\ pipeData' = 0
         /\ roster' = subprocAdd(roster, cur.pid, cur.fd, mallocOk, now, peerOk, heap)
         /\ procs' = [procs EXCEPT ![cur.pid].eof = (sz = "eof")]
         /\ cur' = [cur EXCEPT !.res = "spawned", !.eof = (sz = "eof")]
         /\ pc' = "returned"
         /\ UNCHANGED <<conf, leaked, now, nrun, lim, connOpen, passKept, built, sent, removeLog, cmd>>

ReadReturn ==
    /\ pc = "drain"
    /\ \E sz \in ReadResults, mallocOk \in BOOLEAN, peerOk \in BOOLEAN, heap \in Garbage :
           DrainLoop(sz, mallocOk, peerOk, heap)

(* read() fails (EINTR: a handled signal such as SIGCHLD arrived) *)
ReadInterrupted ==
    /\ pc = "drain"
    /\ \E mallocOk \in BOOLEAN, peerOk \in BOOLEAN, heap \in Garbage :
           DrainLoop("err", mallocOk, peerOk, heap)

(* The caller after subprocRunChild returned: the listen loop closes the    *)
(* connection socket and goes round.  The pipe descriptors the call left    *)
(* open stay open in the supervisor, out of reach: they are counted in      *)
(* leaked.                                                                  *)
CallerClose ==
    /\ pc = "returned"
    /\ pc' = "idle"
    /\ connOpen' = FALSE
    /\ cur' = NoCur
    /\ lim' = NoLim
    /\ pipefd' = NoPipe
    /\ leaked' = leaked + (IF pipefd.r THEN 1 ELSE 0) + (IF pipefd.w THEN 1 ELSE 0)
    /\ UNCHANGED <<conf, pipeData, roster, procs, now, nrun, passKept, built, sent, removeLog, cmd>>

-----------------------------------------------------------------------------
(* subprocReap *)

(* The waitpid(-1, WNOHANG) loop over the terminated children zs *)
(* The same with the WIFSIGNALED branch missing: the record of a child that *)
(* a signal terminated stays.                                               *)
ReapLoop_exitedonly(r, zs) ==
    LET ex == {p \in zs : procs[p].exit.kind = "exited"}
        F[S \in SUBSET ex] ==
            IF S = {} THEN r
            ELSE LET p == CHOOSE q \in S : TRUE
                 IN  subprocRemove(F[S \ {p}], p)
    IN  F[ex]

RECURSIVE ReapLoop(_, _)
ReapLoop(r, zs) ==
    IF zs = {} THEN r
    ELSE LET p == CHOOSE q \in zs : TRUE
         IN  ReapLoop(subprocRemove(r, p), zs \ {p})

(* What subprocRemove logs for pid over roster r: "Removing pid" when it    *)
(* finds a record, "PID: %d not found (?)" when it does not.               *)
RemoveMsg(r, pid) == IF CountPid(r, pid) > 0 THEN "removed" ELSE "not_found"

(* The messages of the subprocRemove calls of the waitpid loop, by pid *)
RECURSIVE RemoveLog(_, _, _)
RemoveLog(r, zs, log) ==
    IF zs = {} THEN log
    ELSE LET p == CHOOSE q \in zs : TRUE
         IN  RemoveLog(subprocRemove(r, p), zs \ {p}, [log EXCEPT ![p] = RemoveMsg(r, p)])

(* The records over the limit, under > in place of >= *)
OverLimit_gt(c, r, t) ==
    IF c.tlimit = 0 THEN {}
    ELSE {r[i].pid : i \in {j \in 1..Len(r) : t - r[j].start > c.tlimit}}

(* The same without the tlimit == 0 skip *)
OverLimit_nocheck(c, r, t) ==
    {r[i].pid : i \in {j \in 1..Len(r) : t - r[j].start >= c.tlimit}}

(* The pids the time-limit pass signals (SIGCONT, then SIGKILL) *)
OverLimit(c, r, t) ==
    IF c.tlimit = 0 THEN {}
    ELSE {r[i].pid : i \in {j \in 1..Len(r) : t - r[j].start >= c.tlimit}}

(* A pass that also unlinks the records it signals *)
TimeLimitPass_unlink(c, r, t) ==
    [roster |-> ReapLoop(r, OverLimit(c, r, t)), killed |-> OverLimit(c, r, t)]

(* The time-limit pass of subprocReap over roster r: the signalled pids and *)
(* the roster it leaves.                                                    *)
TimeLimitPass(c, r, t) == [roster |-> r, killed |-> OverLimit(c, r, t)]

(* The signals the time-limit pass sends to an over-limit pid, in order *)
KillSeq == <<SIGCONT, SIGKILL>>

(* kill(pid, SIGCONT); kill(pid, SIGKILL) as the process pr receives them *)
Signal(pr) ==
    IF pr.st \in {"build", "run"}
    THEN [pr EXCEPT !.kill = TRUE, !.rekill = pr.kill]
    ELSE pr

(* Where the supervisor calls subprocReap: in its loop between two spawns,  *)
(* and while it drains the reaps after kill_all.                            *)
ReapPoints == {"idle", "shutdown"}

subprocReap ==
    /\ pc \in ReapPoints
    /\ LET zs == {p \in Pids : procs[p].st = "zombie"}
           r1 == ReapLoop(roster, zs)
           tl == TimeLimitPass(conf, r1, now)
       IN  /\ passKept' = (tl.roster = r1)
           /\ roster' = tl.roster
           /\ sent' = [p \in Pids |-> IF p \in tl.killed THEN KillSeq ELSE <<>>]
           /\ removeLog' = RemoveLog(roster, zs, [p \in Pids |-> "none"])
           /\ procs' = [p \in Pids |->
                           IF p \in zs THEN FreeProc
                           ELSE IF p \in tl.killed THEN Signal(procs[p])
                           ELSE procs[p]]
    /\ UNCHANGED <<conf, pc, cur, pipefd, leaked, pipeData, now, nrun, lim, connOpen, built, cmd>>

(* The pids subprocKillAll signals: the pid of every record *)
RosterPids(r) == {r[i].pid : i \in 1..Len(r)}

(* The same stopping after the first record *)
subprocKillAll_first ==
    /\ pc = "idle"
    /\ pc' = "shutdown"
    /\ LET ps == IF roster = <<>> THEN {} ELSE {Head(roster).pid}
       IN  /\ sent' = [p \in Pids |-> IF p \in ps THEN <<SIGKILL>> ELSE <<>>]
           /\ procs' = [p \in Pids |-> IF p \in ps THEN Signal(procs[p]) ELSE procs[p]]
    /\ UNCHANGED <<conf, cur, pipefd, leaked, pipeData, roster, now, nrun, lim, connOpen,
                   passKept, built, removeLog, cmd>>

(* subprocKillAll, called by the supervisor when a terminating signal ends  *)
(* its loop: kill(p->pid, SIGKILL) for every record; no spawn follows.      *)
subprocKillAll ==
    /\ pc = "idle"
    /\ pc' = "shutdown"
    /\ LET ps == RosterPids(roster)
       IN  /\ sent' = [p \in Pids |-> IF p \in ps THEN <<SIGKILL>> ELSE <<>>]
           /\ procs' = [p \in Pids |-> IF p \in ps THEN Signal(procs[p]) ELSE procs[p]]
    /\ UNCHANGED <<conf, cur, pipefd, leaked, pipeData, roster, now, nrun, lim, connOpen,
                   passKept, built, removeLog, cmd>>

-----------------------------------------------------------------------------
(* The children and the clock *)

(* The child runs subprocNewProc to its end *)
ChildBuild(p) ==
    /\ procs[p].st = "build"
    /\ \E e \in BuildEnds : procs' = [procs EXCEPT ![p] = Ended(procs[p], e)]
    /\ UNCHANGED <<conf, pc, cur, pipefd, leaked, pipeData, roster, now, nrun, lim, connOpen,
                   passKept, built, sent, removeLog, cmd>>

(* The child logs through the pipe while the supervisor still reads it *)
ChildLog(p) ==
    /\ procs[p].st = "build"
    /\ procs[p].wopen
    /\ p = cur.pid
    /\ pipefd.r
    /\ pipeData < MaxPipe
    /\ pipeData' = pipeData + 1
    /\ UNCHANGED <<conf, pc, cur, pipefd, leaked, roster, procs, now, nrun, lim, connOpen,
                   passKept, built, sent, removeLog, cmd>>

(* The jailed program ends by itself *)
TargetExit(p) ==
    /\ procs[p].st = "run"
    /\ \E code \in {0, 1} :
           procs' = [procs EXCEPT ![p].st = "zombie", ![p].kill = FALSE,
                                  ![p].rekill = FALSE,
                                  ![p].exit = [kind |-> "exited", code |-> code]]
    /\ UNCHANGED <<conf, pc, cur, pipefd, leaked, pipeData, roster, now, nrun, lim, connOpen,
                   passKept, built, sent, removeLog, cmd>>

(* A pending SIGKILL ends the process *)
Die(p) ==
    /\ Live(p)
    /\ procs[p].kill
    /\ procs' = [procs EXCEPT ![p].st = "zombie", ![p].wopen = FALSE,
                              ![p].kill = FALSE, ![p].rekill = FALSE,
                              ![p].exit = [kind |-> "signaled", code |-> SIGKILL]]
    /\ UNCHANGED <<conf, pc, cur, pipefd, leaked, pipeData, roster, now, nrun, lim, connOpen,
                   passKept, built, sent, removeLog, cmd>>

Tick ==
    /\ now < MaxTime
    /\ now' = now + 1
    /\ UNCHANGED <<conf, pc, cur, pipefd, leaked, pipeData, roster, procs, nrun, lim,
                   connOpen, passKept, built, sent, removeLog, cmd>>

Next ==
    \/ RunChild
    \/ NetAttach
    \/ ReadReturn
    \/ ReadInterrupted
    \/ CallerClose
    \/ subprocReap
    \/ \E p \in Pids : ChildBuild(p)
    \/ \E p \in Pids : ChildLog(p)
    \/ \E p \in Pids : TargetExit(p)
    \/ \E p \in Pids : Die(p)
    \/ Tick

Spec == Init /\ [][Next]_vars

(* The supervisor thread and the children run when they can; no signal is   *)
(* promised to interrupt a blocked read().                                  *)
FairSpec ==
    /\ Spec
    /\ WF_vars(NetAttach)
    /\ WF_vars(ReadReturn)
    /\ WF_vars(CallerClose)
    /\ \A p \in Pids : WF_vars(ChildBuild(p))

(* The configurations with a time limit *)
ReapInit == Init /\ conf.tlimit > 0

(* The supervisor keeps coming back to its loop and keeps calling           *)
(* subprocReap, a child gets through subprocNewProc, and a process with a   *)
(* pending SIGKILL terminates; the configurations with a time limit.        *)
ReapSpec ==
    /\ ReapInit
    /\ [][Next]_vars
    /\ WF_vars(NetAttach)
    /\ WF_vars(ReadReturn \/ ReadInterrupted)
    /\ WF_vars(CallerClose)
    /\ SF_vars(subprocReap)
    /\ \A p \in Pids : WF_vars(ChildBuild(p))
    /\ \A p \in Pids : WF_vars(Die(p))

(* The supervisor's loop ended by a terminating signal at any point between *)
(* two spawns: subprocKillAll, then subprocReap again and again; a process  *)
(* with a pending SIGKILL terminates.                                       *)
KillNext == Next \/ subprocKillAll

KillSpec ==
    /\ Init
    /\ [][KillNext]_vars
    /\ WF_vars(subprocReap)
    /\ \A p \in Pids : WF_vars(Die(p))

-----------------------------------------------------------------------------
(* subprocNewProc followed step by step in the children.  The supervisor    *)
(* is reduced to what the children see of it: clone() and waitpid().        *)

(* clone() returned 0 in the new process p: it enters subprocNewProc *)
BuildClone(p) ==
    /\ procs[p].st = "free"
    /\ procs' = [procs EXCEPT ![p] = [FreeProc EXCEPT !.st = "build", !.wopen = TRUE]]
    /\ built' = [built EXCEPT ![p] = BuilderEntry]
    /\ UNCHANGED <<conf, pc, cur, pipefd, leaked, pipeData, roster, now, nrun, lim, connOpen,
                   passKept, sent, removeLog, cmd>>

(* The child calls the next step of subprocNewProc *)
BuilderStep(p) ==
    /\ procs[p].st = "build"
    /\ built[p].end = "none"
    /\ \E ok \in BOOLEAN :
           LET b == NewProcStep(built[p], ok)
           IN  /\ built' = [built EXCEPT ![p] = b]
               /\ procs' = IF b.end = "none" THEN procs
                           ELSE [procs EXCEPT ![p] = Ended(procs[p], b)]
    /\ UNCHANGED <<conf, pc, cur, pipefd, leaked, pipeData, roster, now, nrun, lim, connOpen,
                   passKept, sent, removeLog, cmd>>

BuildNext ==
    \/ \E p \in Pids : BuildClone(p)
    \/ \E p \in Pids : BuilderStep(p)
    \/ \E p \in Pids : TargetExit(p)
    \/ subprocReap

BuildSpec == Init /\ [][BuildNext]_vars

-----------------------------------------------------------------------------
(* subprocRunChild under every choice of namespaces, with children that do  *)
(* not move: the calls end when a signal interrupts the read.               *)
FlagsInit == conf \in FlagConfs /\ SubprocStart /\ cmd = CmdEntry(0)

FlagsNext == RunChild \/ NetAttach \/ ReadInterrupted \/ CallerClose

FlagsSpec == FlagsInit /\ [][FlagsNext]_vars

-----------------------------------------------------------------------------
(* cmdlineParse alone, from any of the personalities the caller may set *)
ParseInit == SubprocInit /\ conf.tlimit = 0 /\ cmd \in {CmdEntry(m) : m \in InitMasks}

ParseNext == CmdlineOption \/ CmdlineEnd

ParseSpec == ParseInit /\ [][ParseNext]_vars

-----------------------------------------------------------------------------
(* The claims *)

HasRec(p, s) == \E i \in 1..Len(roster) : roster[i].pid = p /\ roster[i].start = s

(* The child p is being spawned: subprocRunChild has not returned yet *)
Spawning(p) == pc \in {"attach", "drain"} /\ cur.pid = p

(* C1: with max_conns_per_ip = k > 0, no 16-byte remote address is carried  *)
(* by more than k roster records, in any reachable state.                   *)
C1_PerIpCap ==
    conf.max_conns_per_ip > 0 =>
        \A a \in Addrs : CountAddr(roster, a, AddrLen) <= conf.max_conns_per_ip

(* C2: for cap > 0 the limiter allows a connection from address A exactly   *)
(* when fewer than cap roster records carry the full 16-byte address A.     *)
C2_LimiterCountsFullAddress ==
    lim.valid => (lim.allowed <=> lim.full < conf.max_conns_per_ip)

(* C3: after a successful clone, once the child has exec'ed the target or   *)
(* terminated, the supervisor's read loop eventually sees end of file.      *)
C3_DrainReachesEof ==
    (pc = "drain" /\ procs[cur.pid].st \in {"run", "zombie"}) ~> cur.eof

(* C4: a child is reaped only after the supervisor saw end of file on its   *)
(* log pipe.                                                                *)
C4_EofBeforeReap ==
    [][\A p \in Pids : (procs[p].st = "zombie" /\ procs'[p].st = "free") => procs[p].eof]_vars

(* C5: from the return of subprocRunChild until the reap, the roster holds  *)
(* exactly one record of the child, carrying the peer's 16-byte address:    *)
(* the record inserted at the end of the spawn carries it, and no step      *)
(* changes a record.                                                        *)
C5_OneRecordPerChild ==
    [][/\ \A p \in Pids :
              (procs'[p].st \in {"build", "run", "zombie"}
                  /\ ~(pc' \in {"attach", "drain"} /\ cur'.pid = p)) =>
                  CountPid(roster', p) = 1
       /\ (pc = "drain" /\ pc' = "returned" /\ cur.fd.isSock) =>
              /\ roster' # roster
              /\ Head(roster').pid = cur.pid
              /\ Head(roster').remote_addr = cur.fd.peer
              /\ Tail(roster') = roster
       /\ pc # "drain" =>
              \A i \in 1..Len(roster') : \E j \in 1..Len(roster) : roster'[i] = roster[j]]_vars

(* The start times a record can have and come over a limit T >= 1 while    *)
(* the clock runs to MaxTime.                                               *)
StartsOverLimit == 0..(MaxTime - 1)

(* C6: with tlimit = T > 0, a record whose age has reached T is eventually  *)
(* removed from the roster, provided subprocReap keeps being called and a   *)
(* process sent SIGKILL terminates.                                         *)
C6_OverLimitRemoved ==
    \A p \in Pids : \A s \in StartsOverLimit :
        (conf.tlimit > 0 /\ HasRec(p, s) /\ now - s >= conf.tlimit) ~> ~HasRec(p, s)

(* An over-limit record whose process the time-limit pass has signalled *)
C6_Witness ==
    \E i \in 1..Len(roster) :
        /\ conf.tlimit > 0
        /\ now - roster[i].start >= conf.tlimit
        /\ procs[roster[i].pid].kill

(* C7: the time-limit pass of subprocReap leaves the roster as it found it; *)
(* a record leaves the roster only when its terminated child is reaped,     *)
(* one record per reap, and a record enters it only at the end of a spawn.  *)
C7_EnforcementKeepsRoster ==
    [][/\ passKept'
       /\ Len(roster') > Len(roster) => pc = "drain"
       /\ \A p \in Pids :
              CountPid(roster', p) < CountPid(roster, p) =>
                  /\ procs[p].st = "zombie"
                  /\ procs'[p].st = "free"
                  /\ CountPid(roster', p) = CountPid(roster, p) - 1]_vars

(* A pid signalled by two passes whose record is still in the roster *)
C7_Witness ==
    \E p \in Pids : procs[p].rekill /\ CountPid(roster, p) = 1 /\ passKept

(* C8: a child one of whose containment steps (or whose execve) failed has  *)
(* terminated with exit status 1 having called no step after the failing    *)
(* one, and no child ever returns from subprocNewProc into the supervisor's *)
(* code.                                                                    *)
C8_FailureIsFatal ==
    \A p \in Pids :
        /\ procs[p].st # "returned"
        /\ (procs[p].st \in {"build", "run", "zombie"} /\ built[p].failed # 0) =>
               /\ procs[p].st = "zombie"
               /\ procs[p].exit = [kind |-> "exited", code |-> 1]
               /\ built[p].end = "exit"
               /\ built[p].trace = SubSeq(Steps, 1, built[p].failed)
               /\ roster = <<>>

(* A child whose containMountFS failed *)
C8_Witness ==
    \E p \in Pids : procs[p].st = "zombie" /\ built[p].failed = 3

(* C9: when pipe2 or clone fails, subprocRunChild returns to its caller     *)
(* with no pipe end open, the roster and the processes as they were, and    *)
(* no net attach.                                                           *)
C9_CloneFailureAbandons ==
    [][(pc = "idle" /\ cur'.res \in {"pipe_failed", "clone_failed"}) =>
           /\ pc' = "returned"
           /\ pipefd' = NoPipe
           /\ roster' = roster
           /\ procs' = procs
           /\ ~cur'.attached]_vars

(* subprocRunChild has returned after a failed clone *)
C9_Witness == pc = "returned" /\ cur.res = "clone_failed"

(* C10: when the limiter rejects a connection, no pipe is created, no       *)
(* process is cloned, the roster is unchanged, and the connection socket is *)
(* closed when the supervisor goes round its loop.                          *)
C10_RejectionDropsConnection ==
    [][/\ (pc = "idle" /\ cur'.res = "rejected") =>
              /\ pc' = "returned"
              /\ pipefd' = NoPipe
              /\ roster' = roster
              /\ procs' = procs
       /\ (pc = "returned" /\ pc' # "returned" /\ cur.res = "rejected") =>
              /\ pc' = "idle"
              /\ ~connOpen'
              /\ leaked' = leaked
              /\ roster' = roster
              /\ procs' = procs]_vars

(* A rejected connection whose socket is still open in the caller *)
C10_Witness == pc = "returned" /\ cur.res = "rejected" /\ connOpen

-----------------------------------------------------------------------------
(* The claims on cmdlineParse *)

(* s is a decimal number: digits and nothing else *)
AllDigits(s) == Len(s) > 0 /\ \A i \in 1..Len(s) : isdigit(s[i])

(* An unsigned long in a width that holds every product with a multiplier *)
Widen(v) == [i \in 1..WideLimbs |-> IF i <= Len(v) THEN v[i] ELSE 0]

(* The number the decimal digits of s denote, in that width *)
RECURSIVE DecimalFrom(_, _, _)
DecimalFrom(s, i, acc) ==
    IF i > Len(s) THEN acc
    ELSE DecimalFrom(s, i + 1, MulAdd(acc, 10, DigitVal(s[i], 10)).val)

Decimal(s) == DecimalFrom(s, 1, Widen(ULong(0)))

(* C11: every rlimit set by cmdlineParseRLimit is the hard limit for 'max'  *)
(* (in any letter case), the soft limit for 'def', and for a decimal number *)
(* n exactly n times the unit of the resource, not the product reduced      *)
(* modulo 2^64.                                                             *)
C11_RLimitResolution ==
    \A r \in RLimitNames :
        cmd.rl[r] # Unset =>
            LET e == cmd.rl[r]
            IN  /\ strcasecmp0(e.optarg, <<"m", "a", "x">>) => e.val = e.rlimit.rlim_max
                /\ strcasecmp0(e.optarg, <<"d", "e", "f">>) => e.val = e.rlimit.rlim_cur
                /\ AllDigits(e.optarg) =>
                       Widen(e.val) = MulWrap(Decimal(e.optarg), RLimitOpts[r])

(* C12: an unrecognized option, an invalid --mode value and a missing       *)
(* command end the program with a non-zero exit code, and only an explicit  *)
(* help request (-h, --help, -?) ends it with exit code 0.                  *)
C12_UsageExitCodes ==
    cmd.pc = "exited" =>
        /\ cmd.why \in {"unknown", "mode", "nocommand"} => cmd.exit # 0
        /\ cmd.exit = 0 => cmd.why = "help"

(* A string that is entirely a valid number, as strtoull(s, NULL, 0) reads  *)
(* it: decimal or octal digits, or 0x and hexadecimal digits.               *)
ValidNumber(s) ==
    \/ Len(s) > 0 /\ AllDigits(s)
    \/ /\ Len(s) > 2
       /\ s[1] = "0" /\ ToLower(s[2]) = "x"
       /\ \A i \in 3..Len(s) : ToLower(s[i]) \in HexDigits

Resolvable(db, s) == (\E a \in db : a.name = s) \/ ValidNumber(s)

(* C13: cmdlineParse returns true only when the user and the group are each *)
(* an existing account name or a string that is entirely a valid number;    *)
(* for any other user or group string it does not return true.              *)
C13_UserGroupResolved ==
    cmd.pc = "returned" /\ cmd.ret = "true" =>
        Resolvable(Passwd, cmd.user) /\ Resolvable(Group, cmd.group)

(* The bits of a personality mask *)
PersonaBitRange == 0..27

HasBit(m, k) == (m \div (2 ^ k)) % 2 = 1

(* C14: the personality mask is the initial mask OR-ed with exactly the     *)
(* bits of the persona options that appeared, whatever their order and      *)
(* however often each appeared: bit by bit, a bit is set in the mask iff it *)
(* was set initially or belongs to an option that appeared.                 *)
C14_PersonalityIsOr ==
    \A k \in PersonaBitRange :
        HasBit(cmd.personality, k) <=>
            \/ HasBit(cmd.persona0, k)
            \/ \E o \in cmd.seen : HasBit(PersonaOpts[o], k)

(* cmdlineParse returned after two different persona options on top of a    *)
(* non-empty initial mask.                                                  *)
C14_Witness ==
    /\ cmd.pc = "returned"
    /\ Cardinality(cmd.seen) = 2
    /\ cmd.persona0 = 8
    /\ cmd.personality # cmd.persona0

-----------------------------------------------------------------------------
(* The claims on the order of the steps                                     *)

(* The order in which a child is contained *)
ContainmentOrder ==
    <<"containPrepareEnv", "containSetupFD", "containMountFS", "containDropPrivs",
      "containSetLimits", "containMakeFdsCOE", "sandboxApply", "execve">>

(* C15: the steps a child has called are always the first ones of prepare-  *)
(* env, setup-FDs, mount-FS, drop-privileges, set-limits, make-FDs-close-   *)
(* on-exec, apply-seccomp, execve, in that order; a failed step is the last *)
(* one called; and the only step ever called after sandboxApply is execve.  *)
C15_ContainmentOrder ==
    \A p \in Pids :
        LET t == built[p].trace
        IN  /\ Len(t) <= Len(ContainmentOrder)
            /\ t = SubSeq(ContainmentOrder, 1, Len(t))
            /\ built[p].failed \in {0, Len(t)}
            /\ \A i \in 1..Len(t) :
                   t[i] = "sandboxApply" =>
                       /\ i + 1 <= Len(t) => t[i + 1] = "execve"
                       /\ Len(t) <= i + 1

(* One child went through all the steps and runs the target, another one    *)
(* stopped at a failed step after the mounts.                               *)
C15_Witness ==
    /\ \E p \in Pids : built[p].end = "exec" /\ Len(built[p].trace) = Len(ContainmentOrder)
    /\ \E p \in Pids : built[p].end = "exit" /\ built[p].failed > 3

(* C16: in a successful spawn the parent attaches the network after clone,  *)
(* then drains the log pipe to EOF, then inserts the record: a record is    *)
(* inserted only once the attach is over and EOF has been observed, and the *)
(* attach never runs once EOF has been observed.                            *)
C16_ParentStepOrder ==
    [][/\ Len(roster') > Len(roster) => (cur.attached /\ cur'.eof)
       /\ (cur'.attached /\ ~cur.attached) => (pc = "attach" /\ ~cur.eof)]_vars

-----------------------------------------------------------------------------
(* The claims on subprocReap                                                *)

(* C17: subprocRemove finds a record for every pid subprocReap reaps: the   *)
(* "PID not found" branch is never taken, whatever the interleaving and     *)
(* also when subprocAdd could not allocate the record.                      *)
C17_ReapFindsRecord == \A p \in Pids : removeLog[p] # "not_found"

(* The pids a step reaps *)
Reaped(before, after) ==
    {p \in Pids : before[p].st = "zombie" /\ after[p].st = "free"}

(* The records of r whose pid is not in ps, in order *)
Others(r, ps) == SelectSeq(r, LAMBDA x : x.pid \notin ps)

(* C18: a step that reaps removes, for each reaped pid, exactly one record  *)
(* with that pid (none when it has none) and leaves the other records as    *)
(* they were, in order; when no reaped pid has a record the roster is       *)
(* unchanged; no record is added, no reaped pid is signalled, and with no   *)
(* time limit nothing is signalled and no other process is touched.         *)
C18_ReapLoopFrame ==
    [][LET zs == Reaped(procs, procs')
       IN  zs # {} =>
               /\ \A p \in zs :
                      CountPid(roster', p) =
                          IF CountPid(roster, p) = 0 THEN 0 ELSE CountPid(roster, p) - 1
               /\ Others(roster', zs) = Others(roster, zs)
               /\ Len(roster') <= Len(roster)
               /\ (\A p \in zs : CountPid(roster, p) = 0) => roster' = roster
               /\ \A p \in zs : sent'[p] = <<>>
               /\ conf.tlimit = 0 =>
                      \A p \in Pids : sent'[p] = <<>> /\ (p \notin zs => procs'[p] = procs[p])]_vars

(* The last subprocReap removed the record of one pid, and the record of    *)
(* the other pid is in the roster.                                          *)
C18_Witness ==
    \E p \in Pids : \E q \in Pids \ {p} :
        /\ removeLog[p] = "removed"
        /\ procs[p].st = "free"
        /\ CountPid(roster, p) = 0
        /\ CountPid(roster, q) = 1

(* C19: the roster holds at most one record per pid, also when the pid of   *)
(* a reaped child is given to a later child.                                *)
C19_AtMostOneRecordPerPid == \A p \in Pids : CountPid(roster, p) <= 1

(* The last subprocReap removed the record of pid p, and p, given to a      *)
(* later child, has a record again.                                         *)
C19_Witness ==
    \E p \in Pids :
        /\ removeLog[p] = "removed"
        /\ procs[p].st \in {"build", "run", "zombie"}
        /\ CountPid(roster, p) = 1

(* The pid p has a record of the roster r that is over the time limit *)
HasOverLimitRec(r, p) ==
    \E i \in 1..Len(r) : r[i].pid = p /\ now - r[i].start >= conf.tlimit

(* C20: a pass with tlimit > 0 sends SIGCONT and then SIGKILL to every pid  *)
(* with a record of age >= tlimit and nothing to any other pid; with        *)
(* tlimit = 0 it sends nothing to anyone.                                   *)
C20_EnforcementSignals ==
    [][(sent' # sent \/ removeLog' # removeLog \/ Reaped(procs, procs') # {}) =>
           \A p \in Pids :
               /\ (conf.tlimit > 0 /\ HasOverLimitRec(roster', p)) =>
                      sent'[p] = <<SIGCONT, SIGKILL>>
               /\ (conf.tlimit > 0 /\ ~HasOverLimitRec(roster', p)) => sent'[p] = <<>>
               /\ conf.tlimit = 0 => sent'[p] = <<>>]_vars

(* The last pass signalled one process, and the other one, whose record is  *)
(* younger than the limit, got no signal.                                   *)
C20_Witness ==
    \E p \in Pids : \E q \in Pids \ {p} :
        /\ conf.tlimit > 0
        /\ sent[p] = <<SIGCONT, SIGKILL>>
        /\ procs[p].kill
        /\ CountPid(roster, q) = 1
        /\ ~HasOverLimitRec(roster, q)
        /\ sent[q] = <<>>
        /\ ~procs[q].kill

-----------------------------------------------------------------------------
(* The claims on the rest of subprocRunChild and on subprocKillAll          *)

(* C21: a failed net attach after a successful clone changes nothing of     *)
(* what follows: the attach step itself signals no child and touches no     *)
(* record, the parent goes on to the read loop, and the read loop ends as   *)
(* after a successful attach, closing the read end and calling subprocAdd   *)
(* for the child, which links the record at the head of the roster unless   *)
(* its allocation fails.                                                    *)
C21_AttachFailureNonFatal ==
    [][/\ (pc = "attach" /\ cur' # cur) =>
              /\ pc' = "drain"
              /\ cur'.link \in {"ok", "failed"}
              /\ procs' = procs /\ roster' = roster /\ sent' = sent
       /\ (cur.link = "failed" /\ pc # "idle" /\ pc' # pc) =>
              \/ pc = "attach" /\ pc' = "drain"
              \/ pc = "returned" /\ pc' = "idle"
              \/ /\ pc = "drain" /\ pc' = "returned"
                 /\ ~pipefd'.r
                 /\ procs'[cur.pid].kill = procs[cur.pid].kill
                 /\ \/ roster' = roster
                    \/ /\ roster' # <<>>
                       /\ Head(roster').pid = cur.pid
                       /\ Tail(roster') = roster]_vars

(* subprocRunChild returned after a failed attach with the child's record   *)
(* at the head of the roster and no signal sent to the child.               *)
C21_Witness ==
    /\ pc = "returned"
    /\ cur.link = "failed"
    /\ roster # <<>>
    /\ Head(roster).pid = cur.pid
    /\ ~procs[cur.pid].kill

(* The bits of the clone flags *)
FlagBitRange == 0..30

(* The CLONE_NEW* bits of the namespaces enabled in c *)
Requested(c) ==
    (IF c.clone_newnet THEN {CLONE_NEWNET} ELSE {}) \cup
    (IF c.clone_newuser THEN {CLONE_NEWUSER} ELSE {}) \cup
    (IF c.clone_newns THEN {CLONE_NEWNS} ELSE {}) \cup
    (IF c.clone_newpid THEN {CLONE_NEWPID} ELSE {}) \cup
    (IF c.clone_newipc THEN {CLONE_NEWIPC} ELSE {}) \cup
    (IF c.clone_newuts THEN {CLONE_NEWUTS} ELSE {})

(* C22: the flags of every clone call are SIGCHLD OR-ed with exactly the    *)
(* CLONE_NEW* bits of the enabled namespaces: bit by bit, a bit is set iff  *)
(* it is a bit of SIGCHLD or of an enabled namespace.                       *)
C22_CloneFlags ==
    cur.res \in {"clone_failed", "cloned", "attached", "attach_failed", "spawned"} =>
        \A k \in FlagBitRange :
            HasBit(cur.flags, k) <=>
                (HasBit(SIGCHLD, k) \/ \E b \in Requested(conf) : HasBit(b, k))

(* A child cloned with the net namespace and without the user namespace *)
C22_Witness ==
    /\ cur.res = "cloned"
    /\ conf.clone_newnet /\ ~conf.clone_newuser
    /\ cur.flags >= CLONE_NEWNET
    /\ ~HasBit(cur.flags, 28)

(* C23: the record inserted for a child spawned with an fd_in that is not a *)
(* socket has the text "[STANDALONE_MODE]" and sixteen zero address bytes.  *)
C23_StandaloneRecord ==
    [][(pc = "drain" /\ pc' = "returned" /\ ~cur.fd.isSock /\ Len(roster') > Len(roster)) =>
           /\ Head(roster').pid = cur.pid
           /\ Head(roster').remote_txt = StandaloneTxt
           /\ Head(roster').remote_addr = ZeroAddr]_vars

(* C24: subprocKillAll sends SIGKILL to the pid of every record and to no   *)
(* other pid and leaves the roster as it is; after it, with killed children *)
(* terminating and subprocReap called again and again, the roster becomes   *)
(* empty.                                                                   *)
C24_KillAllDrains ==
    /\ [][(pc = "idle" /\ pc' = "shutdown") =>
              /\ roster' = roster
              /\ \A p \in Pids :
                     /\ CountPid(roster, p) > 0 => sent'[p] = <<SIGKILL>>
                     /\ CountPid(roster, p) = 0 => (sent'[p] = <<>> /\ procs'[p] = procs[p])
                     /\ (CountPid(roster, p) > 0 /\ Live(p)) => procs'[p].kill]_vars
    /\ (pc = "shutdown") ~> (roster = <<>>)

(* subprocKillAll has just signalled the only process with a record, and    *)
(* the other process, running without a record, got nothing.                *)
C24_Witness ==
    \E p \in Pids : \E q \in Pids \ {p} :
        /\ pc = "shutdown"
        /\ CountPid(roster, p) = 1 /\ sent[p] = <<SIGKILL>> /\ procs[p].kill
        /\ CountPid(roster, q) = 0 /\ Live(q) /\ sent[q] = <<>> /\ ~procs[q].kill

(* C25: whenever subprocRunChild has returned, on a rejection, a pipe       *)
(* failure, a clone failure or a spawn, the supervisor holds neither end of *)
(* the call's log pipe, so that no pipe descriptor of an earlier call stays *)
(* open in it.                                                              *)
C25_NoPipeDescriptorLeft ==
    /\ pc = "returned" => (~pipefd.r /\ ~pipefd.w)
    /\ leaked = 0

=============================================================================
